---------------------------- MODULE Spec2Model ----------------------------
(***************************************************************************)
(* Model of parse.py, the IPPcode24 lexical/syntactic analyzer.            *)
(*                                                                         *)
(* Program text is a TLA+ string; a character is a string of length one    *)
(* (Head, Tail, SubSeq, Len and \o are the string operations used).        *)
(* The state machine follows main(): parse_arguments, sys.stdin.read,      *)
(* prepare_source, the line loop of run_analysis (one step per statement   *)
(* line head, one step per argument), tree.write and sys.exit.             *)
(***************************************************************************)
EXTENDS Integers, Sequences, FiniteSets, TLC

-----------------------------------------------------------------------------
(* Bounds of the explored inputs *)

\* number of physical-line chunks a generated program text is built from
MaxLines == 3

\* number of characters after the '@' of a generated symbol token
MaxPayload == 4

-----------------------------------------------------------------------------
(* class ErrorCode *)

PARAMETER_ERR == 10
INPUT_FILE_ERR == 11
MISSING_OR_WRONG_IPPCODE_HEADER == 21
UNKNOWN_OPCODE == 22
OTHER_LEXICAL_OR_SYNTACTICAL_ERR == 23

-----------------------------------------------------------------------------
(* Characters *)

LowerLetters == <<"a","b","c","d","e","f","g","h","i","j","k","l","m",
                  "n","o","p","q","r","s","t","u","v","w","x","y","z">>
UpperLetters == <<"A","B","C","D","E","F","G","H","I","J","K","L","M",
                  "N","O","P","Q","R","S","T","U","V","W","X","Y","Z">>

Letters == {LowerLetters[i] : i \in 1..26} \cup {UpperLetters[i] : i \in 1..26}
Digits == {"0","1","2","3","4","5","6","7","8","9"}

\* characters str.strip()/str.split() and the regex class \s treat as whitespace
Whitespace == {" ", "\t", "\n", "\r", "\f"}

\* characters str.splitlines() breaks a line at ("\r\n" counts as one break)
LineBreaks == {"\n", "\r", "\f"}

\* the class [a-zA-Z_\-$&%*!?] and the class [a-zA-Z0-9_\-$&%*!?]
IdStartChars == Letters \cup {"_", "-", "$", "&", "%", "*", "!", "?"}
IdChars == IdStartChars \cup Digits

\* str.upper() on one character
UpperChar(c) ==
    IF \E i \in 1..26 : LowerLetters[i] = c
    THEN UpperLetters[CHOOSE i \in 1..26 : LowerLetters[i] = c]
    ELSE c

RECURSIVE upper(_)
upper(s) == IF s = "" THEN "" ELSE UpperChar(Head(s)) \o upper(Tail(s))

RECURSIVE AllIn(_, _)
AllIn(s, set) == s = "" \/ (Head(s) \in set /\ AllIn(Tail(s), set))

\* s[from..] (1-based), "" when from is past the end
Drop(s, n) == SubSeq(s, n + 1, Len(s))
Take(s, n) == SubSeq(s, 1, n)
StartsWith(s, p) == Len(s) >= Len(p) /\ Take(s, Len(p)) = p

-----------------------------------------------------------------------------
(* str methods used by the program *)

RECURSIVE lstrip(_)
lstrip(s) == IF s # "" /\ Head(s) \in Whitespace THEN lstrip(Tail(s)) ELSE s

RECURSIVE rstrip(_)
rstrip(s) ==
    IF s # "" /\ SubSeq(s, Len(s), Len(s)) \in Whitespace
    THEN rstrip(Take(s, Len(s) - 1))
    ELSE s

strip(s) == rstrip(lstrip(s))

\* str.split() with no separator: maximal runs of non-whitespace characters
RECURSIVE SplitFrom(_, _)
SplitFrom(s, cur) ==
    IF s = "" THEN (IF cur = "" THEN <<>> ELSE <<cur>>)
    ELSE IF Head(s) \in Whitespace
         THEN (IF cur = "" THEN <<>> ELSE <<cur>>) \o SplitFrom(Tail(s), "")
         ELSE SplitFrom(Tail(s), cur \o Head(s))

split(s) == SplitFrom(s, "")

\* str.splitlines(): breaks at every line boundary, "\r\n" being one boundary;
\* a text that ends with a boundary has no empty last line
RECURSIVE SplitLinesFrom(_, _)
SplitLinesFrom(s, cur) ==
    IF s = "" THEN (IF cur = "" THEN <<>> ELSE <<cur>>)
    ELSE IF Head(s) = "\r" /\ Len(s) >= 2 /\ SubSeq(s, 2, 2) = "\n"
         THEN <<cur>> \o SplitLinesFrom(Drop(s, 2), "")
         ELSE IF Head(s) \in LineBreaks
              THEN <<cur>> \o SplitLinesFrom(Tail(s), "")
              ELSE SplitLinesFrom(Tail(s), cur \o Head(s))

splitlines(s) == SplitLinesFrom(s, "")

\* '\n'.join(lines)
RECURSIVE join(_)
join(lines) ==
    IF lines = <<>> THEN ""
    ELSE IF Len(lines) = 1 THEN lines[1]
         ELSE lines[1] \o "\n" \o join(Tail(lines))

\* str.find(c): 0-based index of the first c, -1 when there is none
RECURSIVE FindFrom(_, _, _)
FindFrom(s, c, k) ==
    IF s = "" THEN -1
    ELSE IF Head(s) = c THEN k ELSE FindFrom(Tail(s), c, k + 1)

find(s, c) == FindFrom(s, c, 0)

-----------------------------------------------------------------------------
(* prepare_source *)

\* re.sub(r"#.*", "", s): '.' matches every character except "\n", so a
\* comment runs from '#' up to the next "\n" (or the end of the text)
RECURSIVE StripFrom(_, _)
StripFrom(s, inComment) ==
    IF s = "" THEN ""
    ELSE IF inComment
         THEN (IF Head(s) = "\n" THEN "\n" \o StripFrom(Tail(s), FALSE)
                                 ELSE StripFrom(Tail(s), TRUE))
         ELSE (IF Head(s) = "#" THEN StripFrom(Tail(s), TRUE)
                                ELSE Head(s) \o StripFrom(Tail(s), FALSE))

StripComments(s) == StripFrom(s, FALSE)

NonBlank(line) == strip(line) # ""

prepare_source(s) == join(SelectSeq(splitlines(StripComments(s)), NonBlank))

-----------------------------------------------------------------------------
(* class ArgType and instructionDict *)

VARIABLE_T == "VARIABLE"
SYMBOL_T == "SYMBOL"
LABEL_T == "LABEL"
TYPE_T == "TYPE"

VSS == <<VARIABLE_T, SYMBOL_T, SYMBOL_T>>
VS == <<VARIABLE_T, SYMBOL_T>>
LSS == <<LABEL_T, SYMBOL_T, SYMBOL_T>>

instructionDict ==
    (".IPPCODE24" :> <<>>) @@
    ("MOVE" :> VS) @@ ("CREATEFRAME" :> <<>>) @@ ("PUSHFRAME" :> <<>>) @@
    ("POPFRAME" :> <<>>) @@ ("DEFVAR" :> <<VARIABLE_T>>) @@
    ("CALL" :> <<LABEL_T>>) @@ ("RETURN" :> <<>>) @@
    ("PUSHS" :> <<SYMBOL_T>>) @@ ("POPS" :> <<VARIABLE_T>>) @@
    ("ADD" :> VSS) @@ ("SUB" :> VSS) @@ ("MUL" :> VSS) @@ ("IDIV" :> VSS) @@
    ("LT" :> VSS) @@ ("GT" :> VSS) @@ ("EQ" :> VSS) @@ ("AND" :> VSS) @@
    ("OR" :> VSS) @@ ("NOT" :> VS) @@ ("INT2CHAR" :> VS) @@
    ("STRI2INT" :> VSS) @@
    ("READ" :> <<VARIABLE_T, TYPE_T>>) @@ ("WRITE" :> <<SYMBOL_T>>) @@
    ("CONCAT" :> VSS) @@ ("STRLEN" :> VS) @@ ("GETCHAR" :> VSS) @@
    ("SETCHAR" :> VSS) @@
    ("TYPE" :> VS) @@
    ("LABEL" :> <<LABEL_T>>) @@ ("JUMP" :> <<LABEL_T>>) @@
    ("JUMPIFEQ" :> LSS) @@ ("JUMPIFNEQ" :> LSS) @@ ("EXIT" :> <<SYMBOL_T>>) @@
    ("DPRINT" :> <<SYMBOL_T>>) @@ ("BREAK" :> <<>>)

-----------------------------------------------------------------------------
(* attributesRegexDict: re.match(pattern, token) for each pattern *)

\* ^(GF|LF|TF)@[a-zA-Z_\-$&%*!?][a-zA-Z0-9_\-$&%*!?]*$
var_regex(tok) ==
    /\ Len(tok) >= 4
    /\ Take(tok, 2) \in {"GF", "LF", "TF"}
    /\ SubSeq(tok, 3, 3) = "@"
    /\ SubSeq(tok, 4, 4) \in IdStartChars
    /\ AllIn(Drop(tok, 4), IdChars)

\* ^[a-zA-Z_\-$&%*!?][a-zA-Z0-9_\-$&%*!?]*$
label_regex(tok) ==
    /\ tok # ""
    /\ Head(tok) \in IdStartChars
    /\ AllIn(Tail(tok), IdChars)

\* ^(int|string|bool)$
type_regex(tok) == tok \in {"int", "string", "bool"}

\* (?:[^\\\s#]|\\[0-9]{3})* on the whole of s
RECURSIVE StringUnits(_)
StringUnits(s) ==
    IF s = "" THEN TRUE
    ELSE IF Head(s) = "\\"
         THEN /\ Len(s) >= 4
              /\ AllIn(SubSeq(s, 2, 4), Digits)
              /\ StringUnits(Drop(s, 4))
         ELSE /\ Head(s) \notin Whitespace \cup {"#"}
              /\ StringUnits(Tail(s))

\* ^string@(?:[^\\\s#]|\\[0-9]{3})+$
string_regex(tok) ==
    /\ StartsWith(tok, "string@")
    /\ Drop(tok, 7) # ""
    /\ StringUnits(Drop(tok, 7))

\* ^int@([+-]?\d+)$
int_regex(tok) ==
    /\ StartsWith(tok, "int@")
    /\ LET p == Drop(tok, 4)
           d == IF p # "" /\ Head(p) \in {"+", "-"} THEN Tail(p) ELSE p
       IN  d # "" /\ AllIn(d, Digits)

\* ^bool@(true|false)$
bool_regex(tok) == tok \in {"bool@true", "bool@false"}

\* ^nil@(nil)$
nil_regex(tok) == tok = "nil@nil"

-----------------------------------------------------------------------------
(* run_analysis: the pure parts of one loop iteration *)

\* str(n) for n >= 0
DigitChars == <<"0","1","2","3","4","5","6","7","8","9">>
RECURSIVE str(_)
str(n) == IF n < 10 THEN DigitChars[n + 1]
          ELSE str(n \div 10) \o DigitChars[(n % 10) + 1]

\* a header check that looks at the first token only
HeaderOK_FirstToken(line) ==
    split(line) # <<>> /\ upper(split(line)[1]) = ".IPPCODE24"

\* line.upper().strip() != ".IPPCODE24" is the header error; this is its negation
HeaderOK(line) == strip(upper(line)) = ".IPPCODE24"

\* tokens[0].upper() in instructionDict
KnownOpcode(tokens) == upper(tokens[1]) \in DOMAIN instructionDict

Signature(tokens) == instructionDict[upper(tokens[1])]

\* an arity check that rejects only an argument list that is too long
ArityOK_TooManyOnly(tokens) == Len(tokens) - 1 <= Len(Signature(tokens))

\* not (len(tokens) - 1 != len(instructionDict[tokens[0].upper()]))
ArityOK(tokens) == Len(tokens) - 1 = Len(Signature(tokens))

\* an order counted from the header line (enumerate(..., start=1))
InstructionOrder_FromOne(n) == str(n + 1)

\* the order attribute of the instruction element created for line line_number
InstructionOrder(n) == str(n)

\* literal_value: the part after the first '@', the whole token without one
LiteralValue(tok) ==
    LET split_index == find(tok, "@")
    IN  IF split_index # -1 THEN Drop(tok, split_index + 1) ELSE tok

Arg(i, type, text) == [tag |-> "arg" \o str(i), type |-> type, text |-> text]
Fail == [tag |-> "", type |-> "error", text |-> ""]

\* the if/elif chain on argument_type: the argument element created for
\* token tok at position i, or Fail where the code calls print_error_and_exit
Classify(argument_type, tok, i) ==
    IF argument_type = VARIABLE_T
    THEN (IF ~var_regex(tok) THEN Fail ELSE Arg(i, "var", tok))
    ELSE IF argument_type = SYMBOL_T
    THEN (IF var_regex(tok) THEN Arg(i, "var", tok)
          ELSE IF int_regex(tok) THEN Arg(i, "int", LiteralValue(tok))
          ELSE IF bool_regex(tok) THEN Arg(i, "bool", LiteralValue(tok))
          ELSE IF nil_regex(tok) THEN Arg(i, "nil", LiteralValue(tok))
          ELSE IF string_regex(tok) THEN Arg(i, "string", LiteralValue(tok))
          ELSE Fail)
    ELSE IF argument_type = LABEL_T
    THEN (IF ~label_regex(tok) THEN Fail ELSE Arg(i, "label", tok))
    ELSE (IF ~type_regex(tok) THEN Fail ELSE Arg(i, "type", LiteralValue(tok)))

-----------------------------------------------------------------------------
(* Inputs *)

\* sys.argv of the explored runs
ArgvSet == { <<"parse.py">>, <<"parse.py", "--help">>,
             <<"parse.py", "--help", "x">> }

\* physical lines (with their terminators) program texts are built from
Chunks == { ".IPPCODE24\n", " .ippCode24 #h\n", ".IPPCODE24 x\n",
            "move GF@x int@5\n", "ADD GF@x int@1\n",
            "READ GF@x int@5\n", "FOO\n", " \t#c\n", "jump end\n",
            "BREAK #c\rRETURN\n" }

\* every concatenation of at most n chunks
RECURSIVE Texts(_)
Texts(n) == IF n = 0 THEN {""}
            ELSE LET T == Texts(n - 1)
                 IN  T \cup {t \o c : t \in T, c \in Chunks}

\* characters of the generated literal payloads
PayloadChars == {"0", "x", "F", "-", "\\"}

RECURSIVE Payloads(_)
Payloads(n) == IF n = 0 THEN {""}
               ELSE LET P == Payloads(n - 1)
                    IN  P \cup {p \o c : p \in P, c \in PayloadChars}

\* a header and one PUSHS of a generated int or string literal
SymbolTexts == { ".IPPCODE24\nPUSHS " \o pre \o p \o "\n" :
                   pre \in {"int@", "string@"}, p \in Payloads(MaxPayload) }

-----------------------------------------------------------------------------
(* State *)

VARIABLES
    argv,         \* sys.argv
    stdin,        \* the text on standard input
    pc,           \* position in main(): args, read, prepare, line, arg, write, exited
    exitCode,     \* the value given to sys.exit (meaningful once pc = "exited")
    helpPrinted,  \* parse_arguments printed the help text to standard output
    stdinRead,    \* sys.stdin.read() was called
    source_code,  \* main's source_code, the text as read
    prepared,     \* prepare_source(source_code), the argument of run_analysis
    lines,        \* source_code.splitlines() in run_analysis
    line_number,  \* the loop variable of run_analysis
    tokens,       \* line.split() of the current line
    i,            \* the loop variable of the argument loop
    xml_tree,     \* the instruction elements under the root, in append order
    written,      \* tree.write was called
    lookups,      \* number of registry membership tests made so far
    matched       \* <<line_number, i>> of every token given to re.match so far

vars == <<argv, stdin, pc, exitCode, helpPrinted, stdinRead, source_code,
          prepared, lines, line_number, tokens, i, xml_tree, written,
          lookups, matched>>

inputVars == <<argv, stdin>>
analysisVars == <<prepared, lines, line_number, tokens, i, xml_tree,
                  lookups, matched>>

Start ==
    /\ pc = "args"
    /\ exitCode = 0
    /\ helpPrinted = FALSE
    /\ stdinRead = FALSE
    /\ source_code = ""
    /\ prepared = ""
    /\ lines = <<>>
    /\ line_number = 0
    /\ tokens = <<>>
    /\ i = 0
    /\ xml_tree = <<>>
    /\ written = FALSE
    /\ lookups = 0
    /\ matched = {}

Init ==
    /\ \/ argv \in ArgvSet /\ stdin \in Texts(MaxLines)
       \/ argv = <<"parse.py">> /\ stdin \in SymbolTexts
    /\ Start

-----------------------------------------------------------------------------
(* print_error_and_exit(error_code): message to stderr, sys.exit(value) *)

print_error_and_exit(error_code) ==
    /\ pc' = "exited"
    /\ exitCode' = error_code

-----------------------------------------------------------------------------
(* parse_arguments *)

\* len(args) == 2 and args[1] in ["--help", "-h"]: print the help, return 0
ParseArgumentsHelp ==
    /\ pc = "args"
    /\ Len(argv) = 2 /\ argv[2] \in {"--help", "-h"}
    /\ helpPrinted' = TRUE
    /\ pc' = "read"
    /\ UNCHANGED <<inputVars, exitCode, stdinRead, source_code, written>>
    /\ UNCHANGED analysisVars

\* len(args) == 1: return 0
ParseArgumentsNone ==
    /\ pc = "args"
    /\ Len(argv) = 1
    /\ pc' = "read"
    /\ UNCHANGED <<inputVars, exitCode, helpPrinted, stdinRead, source_code, written>>
    /\ UNCHANGED analysisVars

\* anything else: the parameter error
ParseArgumentsError ==
    /\ pc = "args"
    /\ ~(Len(argv) = 2 /\ argv[2] \in {"--help", "-h"})
    /\ Len(argv) # 1
    /\ print_error_and_exit(PARAMETER_ERR)
    /\ UNCHANGED <<inputVars, helpPrinted, stdinRead, source_code, written>>
    /\ UNCHANGED analysisVars

-----------------------------------------------------------------------------
(* main *)

\* source_code = sys.stdin.read(); if not source_code: INPUT_FILE_ERR
ReadStdin ==
    /\ pc = "read"
    /\ stdinRead' = TRUE
    /\ source_code' = stdin
    /\ IF stdin = ""
       THEN print_error_and_exit(INPUT_FILE_ERR)
       ELSE pc' = "prepare" /\ UNCHANGED exitCode
    /\ UNCHANGED <<inputVars, helpPrinted, written>>
    /\ UNCHANGED analysisVars

\* the root element is created, prepare_source runs and run_analysis starts
\* its loop over source_code.splitlines()
PrepareSource ==
    /\ pc = "prepare"
    /\ prepared' = prepare_source(source_code)
    /\ lines' = splitlines(prepare_source(source_code))
    /\ line_number' = 0
    /\ xml_tree' = <<>>
    /\ pc' = "line"
    /\ UNCHANGED <<inputVars, exitCode, helpPrinted, stdinRead, source_code,
                   written, tokens, i, lookups, matched>>

\* ET.indent, tree.write, sys.exit(0) once run_analysis has returned
WriteTree ==
    /\ pc = "write"
    /\ written' = TRUE
    /\ pc' = "exited"
    /\ exitCode' = 0
    /\ UNCHANGED <<inputVars, helpPrinted, stdinRead, source_code>>
    /\ UNCHANGED analysisVars

-----------------------------------------------------------------------------
(* run_analysis *)

CurrentLine == lines[line_number + 1]

ioVars == <<inputVars, helpPrinted, stdinRead, source_code, written, prepared, lines>>

\* the for loop is exhausted: run_analysis returns
LoopEnd ==
    /\ pc = "line"
    /\ line_number >= Len(lines)
    /\ pc' = "write"
    /\ UNCHANGED <<ioVars, exitCode, line_number, tokens, i, xml_tree, lookups, matched>>

\* line_number == 0 and line.upper().strip() != ".IPPCODE24"
HeaderError ==
    /\ pc = "line"
    /\ line_number < Len(lines)
    /\ line_number = 0 /\ ~HeaderOK(CurrentLine)
    /\ tokens' = split(CurrentLine)
    /\ print_error_and_exit(MISSING_OR_WRONG_IPPCODE_HEADER)
    /\ UNCHANGED <<ioVars, line_number, i, xml_tree, lookups, matched>>

\* if len(tokens) == 0 or line_number == 0: continue
SkipLine ==
    /\ pc = "line"
    /\ line_number < Len(lines)
    /\ ~(line_number = 0 /\ ~HeaderOK(CurrentLine))
    /\ Len(split(CurrentLine)) = 0 \/ line_number = 0
    /\ tokens' = split(CurrentLine)
    /\ line_number' = line_number + 1
    /\ UNCHANGED <<ioVars, pc, exitCode, i, xml_tree, lookups, matched>>

\* the line can be an instruction: neither the header error nor a continue
IsStatement ==
    /\ pc = "line"
    /\ line_number < Len(lines)
    /\ ~(line_number = 0 /\ ~HeaderOK(CurrentLine))
    /\ ~(Len(split(CurrentLine)) = 0 \/ line_number = 0)

\* an unknown opcode that is reported but does not end the run
UnknownOpcode_Continue ==
    /\ IsStatement
    /\ tokens' = split(CurrentLine)
    /\ lookups' = lookups + 1
    /\ ~KnownOpcode(split(CurrentLine))
    /\ line_number' = line_number + 1
    /\ UNCHANGED <<ioVars, pc, exitCode, i, xml_tree, matched>>

\* tokens[0].upper() not in instructionDict
UnknownOpcode ==
    /\ IsStatement
    /\ tokens' = split(CurrentLine)
    /\ lookups' = lookups + 1
    /\ ~KnownOpcode(split(CurrentLine))
    /\ print_error_and_exit(UNKNOWN_OPCODE)
    /\ UNCHANGED <<ioVars, line_number, i, xml_tree, matched>>

NewInstruction(toks) ==
    [order |-> InstructionOrder(line_number), opcode |-> upper(toks[1]), args |-> <<>>]

\* the instruction element is appended, then the argument count is wrong
ArityError ==
    /\ IsStatement
    /\ tokens' = split(CurrentLine)
    /\ lookups' = lookups + 1
    /\ KnownOpcode(split(CurrentLine))
    /\ xml_tree' = Append(xml_tree, NewInstruction(split(CurrentLine)))
    /\ ~ArityOK(split(CurrentLine))
    /\ print_error_and_exit(OTHER_LEXICAL_OR_SYNTACTICAL_ERR)
    /\ UNCHANGED <<ioVars, line_number, i, matched>>

\* the instruction element is appended and the argument count is right: the
\* argument loop starts (and is over at once for an instruction without arguments)
BeginInstruction ==
    /\ IsStatement
    /\ tokens' = split(CurrentLine)
    /\ lookups' = lookups + 1
    /\ KnownOpcode(split(CurrentLine))
    /\ xml_tree' = Append(xml_tree, NewInstruction(split(CurrentLine)))
    /\ ArityOK(split(CurrentLine))
    /\ IF Len(split(CurrentLine)) = 1
       THEN pc' = "line" /\ line_number' = line_number + 1 /\ UNCHANGED i
       ELSE pc' = "arg" /\ i' = 1 /\ UNCHANGED line_number
    /\ UNCHANGED <<ioVars, exitCode, matched>>

CurrentArg == Classify(Signature(tokens)[i], tokens[i + 1], i)

\* one iteration of for i in range(1, len(tokens)) whose token matches
ArgAccept ==
    /\ pc = "arg"
    /\ matched' = matched \cup {<<line_number, i>>}
    /\ CurrentArg # Fail
    /\ xml_tree' = [xml_tree EXCEPT ![Len(xml_tree)].args = Append(@, CurrentArg)]
    /\ IF i + 1 < Len(tokens)
       THEN i' = i + 1 /\ UNCHANGED <<pc, line_number>>
       ELSE pc' = "line" /\ line_number' = line_number + 1 /\ UNCHANGED i
    /\ UNCHANGED <<ioVars, exitCode, tokens, lookups>>

\* one iteration whose token does not match
ArgReject ==
    /\ pc = "arg"
    /\ matched' = matched \cup {<<line_number, i>>}
    /\ CurrentArg = Fail
    /\ print_error_and_exit(OTHER_LEXICAL_OR_SYNTACTICAL_ERR)
    /\ UNCHANGED <<ioVars, line_number, tokens, i, xml_tree, lookups>>

-----------------------------------------------------------------------------

Next ==
    \/ ParseArgumentsHelp
    \/ ParseArgumentsNone
    \/ ParseArgumentsError
    \/ ReadStdin
    \/ PrepareSource
    \/ LoopEnd
    \/ HeaderError
    \/ SkipLine
    \/ UnknownOpcode
    \/ ArityError
    \/ BeginInstruction
    \/ ArgAccept
    \/ ArgReject
    \/ WriteTree

Spec == Init /\ [][Next]_vars

-----------------------------------------------------------------------------
(* Properties *)

\* the header marker test, as the specification words it: the whole line,
\* trimmed and compared without regard to letter case
IsMarkerLine(line) == strip(upper(line)) = ".IPPCODE24"

\* run_analysis has been entered
InAnalysis == pc \in {"line", "arg", "write"} \/ (pc = "exited" /\ exitCode \notin {PARAMETER_ERR, INPUT_FILE_ERR})

\* C1: the instruction nodes of the tree carry the order numbers 1, 2, ...
\* in append order at every moment of the build, and a run that accepts a
\* header followed by N statement lines has appended exactly N nodes.
C1_OrderNumbers ==
    /\ \A k \in 1..Len(xml_tree) : xml_tree[k].order = str(k)
    /\ (written /\ lines # <<>>) => Len(xml_tree) = Len(lines) - 1

\* an accepted program of two instructions whose text held comments or blank lines
C1_Witness ==
    /\ written
    /\ Len(xml_tree) >= 2
    /\ Len(splitlines(source_code)) > Len(lines)
    /\ prepared # source_code

\* C2: no instruction node ever has the opcode of the header marker.
C2_HeaderNeverInstruction ==
    \A n \in 1..Len(xml_tree) : xml_tree[n].opcode # ".IPPCODE24"

\* C3: a run on valid parameters whose input has no statement line (empty, or
\* only comments and whitespace) ends with the header error.
C3_NoStatementIsHeaderError ==
    (pc = "exited" /\ Len(argv) = 1 /\ prepare_source(stdin) = "")
        => exitCode = MISSING_OR_WRONG_IPPCODE_HEADER

\* C4: when the first statement line is not the header marker, the analysis
\* never gets past that line: no registry lookup, no classification, no
\* instruction node, nothing written, and the only exit is the header error.
C4_HeaderErrorFirst ==
    (lines # <<>> /\ ~IsMarkerLine(lines[1])) =>
        /\ lookups = 0
        /\ matched = {}
        /\ xml_tree = <<>>
        /\ ~written
        /\ line_number = 0
        /\ pc \in {"line", "exited"}
        /\ pc = "exited" => exitCode = MISSING_OR_WRONG_IPPCODE_HEADER

\* the header error on a first line that is an ordinary instruction or the
\* marker with extra tokens, with more lines after it
C4_Witness ==
    /\ pc = "exited"
    /\ exitCode = MISSING_OR_WRONG_IPPCODE_HEADER
    /\ Len(lines) >= 2
    /\ upper(split(lines[1])[1]) \in DOMAIN instructionDict
    /\ \E k \in 2..Len(lines) : upper(split(lines[k])[1]) \notin DOMAIN instructionDict

\* the signal statement line k (0-based) calls for on its own, 0 for none
C5_Verdict(k) ==
    LET t == split(lines[k + 1])
        sig == instructionDict[upper(t[1])]
    IN  IF k = 0
        THEN (IF IsMarkerLine(lines[1]) THEN 0 ELSE MISSING_OR_WRONG_IPPCODE_HEADER)
        ELSE IF upper(t[1]) \notin DOMAIN instructionDict THEN UNKNOWN_OPCODE
        ELSE IF Len(t) - 1 # Len(sig) THEN OTHER_LEXICAL_OR_SYNTACTICAL_ERR
        ELSE IF \E j \in 1..Len(sig) : Classify(sig[j], t[j + 1], j) = Fail
             THEN OTHER_LEXICAL_OR_SYNTACTICAL_ERR
        ELSE 0

C5_Violating == {k \in 0..(Len(lines) - 1) : C5_Verdict(k) # 0}

C5_Min(S) == CHOOSE k \in S : \A m \in S : k <= m

\* C5: the run stops at the earliest violating statement line with that
\* line's signal, examines no later line, and writes the tree only when no
\* line violates.
C5_StopsAtFirstViolation ==
    LET violating == C5_Violating
        first == C5_Min(violating)
    IN  /\ violating # {} =>
              /\ line_number <= first
              /\ \A m \in matched : m[1] <= first
              /\ Len(xml_tree) <= first
              /\ pc # "write" /\ ~written
              /\ pc = "exited" => /\ line_number = first
                                  /\ exitCode = C5_Verdict(first)
        /\ (pc = "exited" /\ exitCode \in {UNKNOWN_OPCODE, OTHER_LEXICAL_OR_SYNTACTICAL_ERR})
              => violating # {}
        /\ written => (pc = "exited" /\ exitCode = 0 /\ violating = {}
                       /\ line_number = Len(lines))
        /\ (pc = "exited" /\ exitCode # 0) => ~written

\* an unknown opcode followed by a line with a syntax error: the run ended
\* on the first of them
C5_Witness ==
    /\ pc = "exited"
    /\ exitCode = UNKNOWN_OPCODE
    /\ line_number = 1
    /\ Len(lines) >= 3
    /\ C5_Verdict(2) = OTHER_LEXICAL_OR_SYNTACTICAL_ERR

\* statement line k names a registered instruction with the wrong number of arguments
C6_ArityMismatch(k) ==
    LET t == split(lines[k + 1])
    IN  /\ upper(t[1]) \in DOMAIN instructionDict
        /\ Len(t) - 1 # Len(instructionDict[upper(t[1])])

\* C6: for a line with a registered opcode and the wrong argument count no
\* token of the line is ever matched against a pattern, its instruction node
\* never gets an argument node, and the run ends on it with the syntax error.
C6_ArityBeforeClassification ==
    \A k \in 1..(Len(lines) - 1) :
        C6_ArityMismatch(k) =>
            /\ \A m \in matched : m[1] # k
            /\ \A n \in 1..Len(xml_tree) :
                   xml_tree[n].order = str(k) => xml_tree[n].args = <<>>
            /\ line_number <= k
            /\ ~(pc = "arg" /\ line_number = k)
            /\ (pc = "exited" /\ line_number = k)
                   => exitCode = OTHER_LEXICAL_OR_SYNTACTICAL_ERR

\* the syntax error on a line that has argument tokens, too few of them
C6_Witness ==
    /\ pc = "exited"
    /\ exitCode = OTHER_LEXICAL_OR_SYNTACTICAL_ERR
    /\ line_number >= 1
    /\ C6_ArityMismatch(line_number)
    /\ Len(tokens) >= 2
    /\ Len(xml_tree) = line_number
    /\ matched = {}

\* statement line k is one instruction of a single symbol argument
OneSymbolLine(k) ==
    LET t == split(lines[k + 1])
    IN  /\ Len(t) = 2
        /\ upper(t[1]) \in DOMAIN instructionDict
        /\ instructionDict[upper(t[1])] = <<SYMBOL_T>>

SymbolToken(k) == split(lines[k + 1])[2]

\* line k has been accepted with its one argument resolved to type and literal
AcceptedAs(k, type, literal) ==
    /\ ~(pc = "exited" /\ line_number = k /\ exitCode # 0)
    /\ line_number > k =>
          xml_tree[k].args = <<[tag |-> "arg1", type |-> type, text |-> literal]>>

HexDigits == Digits \cup {"a","b","c","d","e","f","A","B","C","D","E","F"}

\* an optionally signed decimal integer, a 0x/0X hexadecimal integer or a
\* leading-zero octal integer
ClaimedIntLiteral(p) ==
    \/ LET d == IF p # "" /\ Head(p) \in {"+", "-"} THEN Tail(p) ELSE p
       IN  d # "" /\ AllIn(d, Digits)
    \/ /\ Len(p) >= 3
       /\ Take(p, 2) \in {"0x", "0X"}
       /\ AllIn(Drop(p, 2), HexDigits)
    \/ /\ Len(p) >= 2
       /\ Head(p) = "0"
       /\ AllIn(Tail(p), {"0","1","2","3","4","5","6","7"})

\* C7: in a symbol position every int@ token with a decimal, hexadecimal or
\* octal literal is accepted as Int with the part after '@' as its literal.
C7_IntLiteralsAccepted ==
    (lines # <<>> /\ IsMarkerLine(lines[1])) =>
        \A k \in 1..(Len(lines) - 1) :
            (/\ OneSymbolLine(k)
             /\ StartsWith(SymbolToken(k), "int@")
             /\ ClaimedIntLiteral(Drop(SymbolToken(k), 4)))
                => AcceptedAs(k, "int", Drop(SymbolToken(k), 4))

\* zero or more units, each a character other than backslash, whitespace and
\* '#', or a backslash followed by exactly three decimal digits
RECURSIVE ClaimedStringLiteral(_)
ClaimedStringLiteral(p) ==
    \/ p = ""
    \/ /\ Head(p) \notin (Whitespace \cup {"#", "\\"})
       /\ ClaimedStringLiteral(Tail(p))
    \/ /\ Head(p) = "\\"
       /\ Len(p) >= 4
       /\ AllIn(SubSeq(p, 2, 4), Digits)
       /\ ClaimedStringLiteral(Drop(p, 4))

\* C8: in a symbol position a string@ token is accepted as String with the
\* part after '@' as its literal when that part is zero or more units, the
\* empty literal included, and is rejected with the syntax error otherwise.
C8_StringLiterals ==
    (lines # <<>> /\ IsMarkerLine(lines[1])) =>
        \A k \in 1..(Len(lines) - 1) :
            (OneSymbolLine(k) /\ StartsWith(SymbolToken(k), "string@")) =>
                IF ClaimedStringLiteral(Drop(SymbolToken(k), 7))
                THEN AcceptedAs(k, "string", Drop(SymbolToken(k), 7))
                ELSE /\ line_number <= k
                     /\ (pc = "exited" /\ line_number = k)
                            => exitCode = OTHER_LEXICAL_OR_SYNTACTICAL_ERR

\* the line up to its first '#'
RECURSIVE CutAtHash(_)
CutAtHash(line) ==
    IF line = "" \/ Head(line) = "#" THEN ""
    ELSE Head(line) \o CutAtHash(Tail(line))

RECURSIVE CutEach(_)
CutEach(ls) == IF ls = <<>> THEN <<>> ELSE <<CutAtHash(ls[1])>> \o CutEach(Tail(ls))

\* comment stripping done line by line: each line cut at its first '#', the
\* blank results dropped, the others kept in order
LineLocalPrepare(s) == join(SelectSeq(CutEach(splitlines(s)), NonBlank))

\* C9: prepare_source is idempotent and line-local, and hands run_analysis
\* neither a '#' nor a blank line.
C9_CommentStripping ==
    InAnalysis =>
        /\ prepare_source(prepared) = prepared
        /\ prepared = LineLocalPrepare(source_code)
        /\ find(prepared, "#") = -1
        /\ \A k \in 1..Len(lines) : NonBlank(lines[k])

\* C10: --help alone prints the help, reads no input, runs no analysis and
\* exits with 0; --help with another parameter exits with the parameter
\* error before the input is read.
C10_HelpFlag ==
    /\ (argv = <<"parse.py", "--help">> /\ pc # "args") =>
          /\ helpPrinted
          /\ ~stdinRead
          /\ ~InAnalysis \/ (pc = "exited" /\ exitCode = 0)
          /\ ~written
          /\ pc = "exited" => exitCode = 0
    /\ (Len(argv) > 2 /\ \E n \in 2..Len(argv) : argv[n] = "--help" /\ pc # "args") =>
          /\ pc = "exited"
          /\ exitCode = PARAMETER_ERR
          /\ ~stdinRead
          /\ ~helpPrinted

=============================================================================
